---- MODULE Spec2Model ----
(***************************************************************************)
(* A model of the weather chatbot: the request handlers of main.py (chat,  *)
(* clear_history, the conversations mapping), the agent of                 *)
(* agents/weather_agent.py (WeatherAgent.get_response, _extract_city,      *)
(* _fetch_openweather) and the generation client of                        *)
(* agents/gemini_client.py (GeminiClient.generate_content_async).          *)
(*                                                                         *)
(* A Python str is a sequence of one-character strings.  A JSON / Python   *)
(* value is a record [t |-> type, v |-> payload].  A text built by an      *)
(* f-string is the sequence of its parts: the literal pieces (t = "lit")   *)
(* and the interpolated values, in order.                                  *)
(***************************************************************************)
EXTENDS Integers, Sequences, FiniteSets, TLC

VARIABLES
    conversations,  \* main.py:47  session key -> its entry: Absent or Stored(list of turns)
    req,            \* the chat requests started so far: serial -> the locals of chat and
                    \* get_response, pc the await the coroutine is suspended at
    started,        \* number of POST /chat requests started
    handling,       \* the session key of the request the latest step handled
    clearedAt,      \* per session key: value of started when it was last cleared (0: never)
    revived,        \* per session key: a chat in flight at the last clear has completed since
    call            \* a direct call of a helper function: [fn, arg, done, ret]

vars == <<conversations, req, started, handling, clearedAt, revived, call>>

----------------------------------------------------------------------------
(* Characters and Python str operations *)

LowerSeq == <<"a","b","c","d","e","f","g","h","i","j","k","l","m",
              "n","o","p","q","r","s","t","u","v","w","x","y","z">>
UpperSeq == <<"A","B","C","D","E","F","G","H","I","J","K","L","M",
              "N","O","P","Q","R","S","T","U","V","W","X","Y","Z">>
Digits == {"0","1","2","3","4","5","6","7","8","9"}

AsciiLower == {LowerSeq[i] : i \in DOMAIN LowerSeq}
AsciiUpper == {UpperSeq[i] : i \in DOMAIN UpperSeq}
AsciiLetters == AsciiLower \cup AsciiUpper

\* str.isspace on the characters drawn here: what str.strip() removes and \s matches
Whitespace == {" ", "\t", "\n", "\r"}

\* \w of the re module, as \b uses it
IsWordChar(c) == c \in AsciiLetters \cup Digits \cup {"_"}

ToLower(c) == IF c \in AsciiUpper
              THEN LowerSeq[CHOOSE i \in DOMAIN UpperSeq : UpperSeq[i] = c]
              ELSE c

ToUpper(c) == IF c \in AsciiLower
              THEN UpperSeq[CHOOSE i \in DOMAIN LowerSeq : LowerSeq[i] = c]
              ELSE c

\* str.lower()
StrLower(s) == [i \in 1..Len(s) |-> ToLower(s[i])]

\* str.capitalize(): first character upper-cased, the rest lower-cased
StrCapitalize(s) == [i \in 1..Len(s) |-> IF i = 1 THEN ToUpper(s[i]) ELSE ToLower(s[i])]

\* str.strip(chars): drop the characters of chars from both ends
PyStrip(s, chars) ==
    LET keep == {i \in 1..Len(s) : s[i] \notin chars}
    IN  IF keep = {} THEN <<>>
        ELSE LET first == CHOOSE i \in keep : \A j \in keep : i <= j
                 last  == CHOOSE i \in keep : \A j \in keep : j <= i
             IN  SubSeq(s, first, last)

\* the substring test  w in s
PyIn(w, s) == \E i \in 1..(Len(s) - Len(w) + 1) : SubSeq(s, i, i + Len(w) - 1) = w

\* the text after the last occurrence of sep:  s.split(sep)[-1]
SplitLast(s, seps) ==
    LET at == {i \in 1..Len(s) : s[i] \in seps}
    IN  IF at = {} THEN s
        ELSE LET last == CHOOSE i \in at : \A j \in at : j <= i
             IN  SubSeq(s, last + 1, Len(s))

\* Optional[str]
PyNone == [some |-> FALSE]
Some(x) == [some |-> TRUE, val |-> x]

----------------------------------------------------------------------------
(* WeatherAgent._extract_city *)

\* the character class [A-Za-z\s\-\.\,'] of the pattern
InCityClass(c) == c \in AsciiLetters \cup Whitespace \cup {"-", ".", ",", "'"}

\* the trim set of the three strip(" .,'") calls
TrimSet == {" ", ".", ",", "'"}

\* \bin\s+([A-Za-z\s\-\.\,']+)$ with re.IGNORECASE matches starting at position i.
\* \s is in the class, so some split of \s+ and the group exists exactly when one
\* whitespace character follows "in" and at least one class character follows it.
ReMatchAt(msg, i) ==
    /\ i >= 1
    /\ i + 3 <= Len(msg)
    /\ (i = 1 \/ ~IsWordChar(msg[i - 1]))
    /\ ToLower(msg[i]) = "i"
    /\ ToLower(msg[i + 1]) = "n"
    /\ msg[i + 2] \in Whitespace
    /\ \A j \in (i + 3)..Len(msg) : InCityClass(msg[j])

ReMatches(msg) == {i \in 1..Len(msg) : ReMatchAt(msg, i)}

\* a mutant of ReSearch: the last position that matches
ReSearchLast(msg) ==
    IF ReMatches(msg) = {} THEN 0
    ELSE CHOOSE i \in ReMatches(msg) : \A j \in ReMatches(msg) : j <= i

\* re.search scans from the left: the leftmost position that matches (0: no match)
ReSearch(msg) ==
    IF ReMatches(msg) = {} THEN 0
    ELSE CHOOSE i \in ReMatches(msg) : \A j \in ReMatches(msg) : i <= j

\* m.group(1) of the match at i: \s+ is greedy, the group starts at the first
\* non-whitespace character (or, backtracking, at the last character)
ReGroup1(msg, i) ==
    LET nonws == {j \in (i + 3)..Len(msg) : msg[j] \notin Whitespace}
        from  == IF nonws = {} THEN Len(msg)
                 ELSE CHOOSE j \in nonws : \A k \in nonws : j <= k
    IN  SubSeq(msg, from, Len(msg))

Weather == <<"w","e","a","t","h","e","r">>
Forecast == <<"f","o","r","e","c","a","s","t">>

_extract_city(message) ==
    LET msg == PyStrip(message, Whitespace)
        m == ReSearch(msg)
        city == PyStrip(ReGroup1(msg, m), TrimSet)
        last == PyStrip(SplitLast(msg, {","}), TrimSet)
        candidate == PyStrip(SplitLast(msg, Whitespace), TrimSet)
    IN  IF m # 0
        THEN (IF city # <<>> THEN Some(city) ELSE PyNone)
        ELSE IF "," \in {msg[i] : i \in 1..Len(msg)} /\ last # <<>>
        THEN Some(last)
        ELSE IF candidate # <<>> /\ StrLower(candidate) \notin {Weather, Forecast}
        THEN Some(candidate)
        ELSE PyNone

----------------------------------------------------------------------------
(* Python / JSON values and texts *)

Lit(s) == [t |-> "lit", v |-> s]
JStr(cs) == [t |-> "str", v |-> cs]
JNum(n) == [t |-> "num", v |-> n]
JNull == [t |-> "null", v |-> 0]
JList(xs) == [t |-> "list", v |-> xs]
\* a dict is the sequence of its items, in insertion order
JDict(items) == [t |-> "dict", v |-> items]
Item(k, x) == [k |-> k, val |-> x]
\* the result of an f-string: its parts
Text(parts) == [t |-> "text", v |-> parts]

\* bool(x)
Truthy(x) ==
    CASE x.t = "null" -> FALSE
      [] x.t = "num"  -> x.v # 0
      [] OTHER        -> x.v # <<>>

\* a or b
PyOr(a, b) == IF Truthy(a) THEN a ELSE b

IsDict(x) == x.t = "dict"

\* d.get(k, default) on a dict d
DictGet(d, k, default) ==
    IF \E i \in 1..Len(d.v) : d.v[i].k = k
    THEN d.v[CHOOSE i \in 1..Len(d.v) : d.v[i].k = k].val
    ELSE default

DigitSeq == <<"0","1","2","3","4","5","6","7","8","9">>

RECURSIVE Decimal(_)
Decimal(n) ==
    IF n < 0 THEN <<"-">> \o Decimal(0 - n)
    ELSE IF n < 10 THEN <<DigitSeq[n + 1]>>
    ELSE Decimal(n \div 10) \o Decimal(n % 10)

\* str(x) of a scalar (the payloads drawn hold scalar descriptions)
PyStr(x) ==
    CASE x.t = "str"  -> x.v
      [] x.t = "num"  -> Decimal(x.v)
      [] x.t = "null" -> <<"N","o","n","e">>

\* a text contains the value x when x is one of its interpolated parts
Contains(text, x) == \E i \in 1..Len(text.v) : text.v[i] = x

----------------------------------------------------------------------------
(* WeatherAgent._fetch_openweather: the outcome of requests.get is
   [k |-> "exception", e] or [k |-> "response", status, body], where body is
   [json |-> FALSE] (r.json() raises) or [json |-> TRUE, val |-> value]. *)

HttpStatusText(status) == Text(<<Lit("HTTP "), JNum(status)>>)

_fetch_openweather(city, http) ==
    IF http.k = "exception"
    THEN [data |-> JNull,
          err |-> Text(<<Lit("OpenWeather request failed: "), JStr(http.e)>>)]
    ELSE IF http.status # 200
    THEN LET err == IF http.body.json /\ IsDict(http.body.val)
                    THEN DictGet(http.body.val, "message", HttpStatusText(http.status))
                    ELSE HttpStatusText(http.status)
         IN  [data |-> JNull,
              err |-> Text(<<Lit("OpenWeather error for '"), JStr(city), Lit("': "), err>>)]
    ELSE IF ~http.body.json
    THEN [data |-> JNull,
          err |-> Text(<<Lit("OpenWeather request failed: "), Lit("JSONDecodeError")>>)]
    ELSE [data |-> http.body.val, err |-> JNull]

----------------------------------------------------------------------------
(* GeminiClient.generate_content_async: the outcome of model.generate_content
   is [k |-> "raise", e] or [k |-> "resp", text], text a str or None. *)

\* what the coroutine does: [raised, val]; every Exception is caught inside
generate_content_async(gen) ==
    IF gen.k = "raise"
    THEN [raised |-> FALSE, val |-> Text(<<Lit("X Gemini API error: "), JStr(gen.e)>>)]
    ELSE IF Truthy(gen.text)
    THEN [raised |-> FALSE, val |-> Text(<<JStr(PyStrip(gen.text.v, Whitespace))>>)]
    ELSE [raised |-> FALSE, val |-> Text(<<Lit("str(resp)")>>)]

----------------------------------------------------------------------------
(* WeatherAgent.get_response *)

Hello == <<"h","e","l","l","o">>
Hi == <<"h","i">>
Hey == <<"h","e","y">>
HowAreYou == <<"h","o","w"," ","a","r","e"," ","y","o","u">>
GoodMorning == <<"g","o","o","d"," ","m","o","r","n","i","n","g">>
GoodEvening == <<"g","o","o","d"," ","e","v","e","n","i","n","g">>
GreetingWords == {Hello, Hi, Hey, HowAreYou, GoodMorning, GoodEvening}

NewYork == <<"N","e","w"," ","Y","o","r","k">>
NA == <<"N","/","A">>

\* a mutant of IsSmallTalk: the message is not lower-cased
IsSmallTalkCaseSensitive(message) == \E word \in GreetingWords : PyIn(word, message)

\* line 83: any(word in message.lower() for word in [...])
IsSmallTalk(message) == \E word \in GreetingWords : PyIn(word, StrLower(message))

\* history[-n:]
LastTurns(history, n) ==
    IF Len(history) <= n THEN history
    ELSE SubSeq(history, Len(history) - n + 1, Len(history))

\* m['role'].title() of the two roles
Title(role) == CASE role = "user" -> "User" [] role = "assistant" -> "Assistant"

PromptTurns == 6

\* "\n".join(f"{m['role'].title()}: {m['content']}" for m in history[-6:])
Convo(history) ==
    LET turns == LastTurns(history, PromptTurns)
    IN  [i \in 1..Len(turns) |-> <<Title(turns[i].role), turns[i].content>>]

SmallTalkPrompt(history, message) ==
    Text(<<Lit("You are a friendly AI assistant. ... Conversation so far:"),
           [t |-> "convo", v |-> Convo(history)],
           Lit("User message: "), JStr(message)>>)

FailurePrompt(message, weather_err) ==
    Text(<<Lit("You are a helpful weather assistant. User message: "), JStr(message),
           Lit("Weather lookup failed with error: "), weather_err,
           Lit("Politely explain the issue and suggest checking the city name. ...")>>)

WeatherPrompt(history, message, f) ==
    Text(<<Lit("You are a friendly weather assistant. ... Conversation context (last turns):"),
           [t |-> "convo", v |-> Convo(history)],
           Lit("User message: "), JStr(message),
           Lit("Real-time weather data (JSON):"),
           [t |-> "json", v |-> [city |-> f.name, country |-> f.country,
                                 description |-> f.desc, temperature_c |-> f.temp,
                                 feels_like_c |-> f.feels, humidity_percent |-> f.humidity,
                                 wind_speed_mps |-> f.wind_speed, unix_time |-> f.dt]],
           Lit("Guidelines: ...")>>)

\* line 100: self._extract_city(message) or "New York"
CityOrDefault(message) ==
    LET c == _extract_city(message)
    IN  IF c.some /\ c.val # <<>> THEN c.val ELSE NewYork

\* a mutant of LookupFailed: an empty payload is not taken as a failure
LookupFailedErrOnly(weather_data, weather_err) == Truthy(weather_err)

\* line 103: weather_err or not weather_data
LookupFailed(weather_data, weather_err) == Truthy(weather_err) \/ ~Truthy(weather_data)

NoFields == [name |-> JNull, desc |-> JNull, temp |-> JNull, feels |-> JNull,
             humidity |-> JNull, wind_speed |-> JNull, country |-> JNull, dt |-> JNull]

\* line 135: the values of the except branch
DefaultFields(city) ==
    [name |-> JStr(city), desc |-> JStr(NA), temp |-> JStr(NA), feels |-> JStr(NA),
     humidity |-> JStr(NA), wind_speed |-> JStr(NA), country |-> JStr(<<>>), dt |-> JNull]

EmptyDict == JDict(<<>>)

\* lines 120-125
FieldWeather(weather_data) ==
    LET weather_list == PyOr(DictGet(weather_data, "weather", JNull), JList(<<EmptyDict>>))
    IN  IF weather_list.t = "list" THEN weather_list.v[1] ELSE EmptyDict
FieldMain(weather_data) == PyOr(DictGet(weather_data, "main", JNull), EmptyDict)
FieldWind(weather_data) == PyOr(DictGet(weather_data, "wind", JNull), EmptyDict)
FieldSys(weather_data) == PyOr(DictGet(weather_data, "sys", JNull), EmptyDict)

\* lines 120-133 raise (AttributeError: no .get) on a value that is not a dict
FieldsRaise(weather_data) ==
    \/ ~IsDict(weather_data)
    \/ ~IsDict(FieldWeather(weather_data))
    \/ ~IsDict(FieldMain(weather_data))
    \/ ~IsDict(FieldWind(weather_data))
    \/ ~IsDict(FieldSys(weather_data))

\* lines 120-133 when nothing raises
FieldsBody(weather_data, city) ==
    [name |-> PyOr(DictGet(weather_data, "name", JNull), JStr(city)),
     desc |-> JStr(StrCapitalize(PyStr(DictGet(FieldWeather(weather_data), "description", JStr(NA))))),
     temp |-> DictGet(FieldMain(weather_data), "temp", JStr(NA)),
     feels |-> DictGet(FieldMain(weather_data), "feels_like", JStr(NA)),
     humidity |-> DictGet(FieldMain(weather_data), "humidity", JStr(NA)),
     wind_speed |-> DictGet(FieldWind(weather_data), "speed", JStr(NA)),
     country |-> DictGet(FieldSys(weather_data), "country", JStr(<<>>)),
     dt |-> DictGet(weather_data, "dt", JNull)]

\* a mutant of ExtractFields: the except branch of line 134 is missing
ExtractFieldsNoExcept(weather_data, city) ==
    IF FieldsRaise(weather_data)
    THEN [raised |-> TRUE, fields |-> NoFields]
    ELSE [raised |-> FALSE, fields |-> FieldsBody(weather_data, city)]

\* lines 119-135: try ... except Exception: the defaults
ExtractFields(weather_data, city) ==
    IF FieldsRaise(weather_data)
    THEN [raised |-> FALSE, fields |-> DefaultFields(city)]
    ELSE [raised |-> FALSE, fields |-> FieldsBody(weather_data, city)]

\* the reply of each except branch (lines 96, 115, 166)
FallbackReply(branch, f, e) ==
    CASE branch = "small_talk" ->
            Text(<<Lit("Hello! (Gemini error: "), e, Lit(")")>>)
      [] branch = "weather_failed" ->
            Text(<<Lit("Sorry, I couldn't fetch the weather. (Gemini error: "), e, Lit(")")>>)
      [] branch = "weather_ok" ->
            Text(<<Lit("The weather in "), f.name, Lit(": "), f.desc, Lit(", "), f.temp,
                   Lit(" C (Gemini error: "), e, Lit(")")>>)

----------------------------------------------------------------------------
(* Bounds *)

\* the longest message of SpecCity, in words
MaxWords == 4

----------------------------------------------------------------------------
(* Inputs of SpecCity: the messages handed to _extract_city are the words of
   CityWords joined by single spaces; the empty word gives leading, trailing
   and doubled spaces. *)

CityWords == {
    <<>>,
    <<"i","n">>,
    <<"I","N">>,
    <<"a">>,
    <<"B",".">>,
    <<"c","?">>,
    <<"d",",","e">>,
    <<"w","i","n">>,
    <<"\t","f","-","g","'">>,
    Weather }

RECURSIVE JoinWords(_)
JoinWords(ws) ==
    IF Len(ws) = 0 THEN <<>>
    ELSE IF Len(ws) = 1 THEN ws[1]
    ELSE ws[1] \o <<" ">> \o JoinWords(Tail(ws))

CityMessages == {JoinWords(ws) : ws \in UNION {[1..n -> CityWords] : n \in 0..MaxWords}}

NoCall == [arg |-> <<>>, done |-> FALSE, ret |-> PyNone]

----------------------------------------------------------------------------
(* main.py: the session mapping and the two handlers.

   chat runs in three steps, cut at the awaits of get_response: up to the
   first await (chat), from the return of the weather lookup to the await of
   the generation call (lookup_done), and from the return of the generation
   call to the end of the handler (gemini_done).  asyncio runs one coroutine
   at a time, so each step is atomic; a call offloaded with asyncio.to_thread
   touches no state of the program, so its completion is taken together with
   the step that resumes the coroutine. *)

SessionKeys == {"default", "a"}

\* line 54: req.session_id or "default"  (the empty string is falsy)
SessionKey(sid) == IF sid = "" THEN "default" ELSE sid

Absent == [has |-> FALSE, turns |-> <<>>]
Stored(history) == [has |-> TRUE, turns |-> history]

\* a mutant of Pop: every session is dropped
PopAll(d, k) == [x \in DOMAIN d |-> Absent]

\* a mutant of Pop: nothing is dropped
PopNothing(d, k) == d

\* line 80: conversations.pop(session_id, None)
Pop(d, k) == [x \in DOMAIN d |-> IF x = k THEN Absent ELSE d[x]]

HistoryTurns == 10

\* lines 55-57: conversations.setdefault(session_id, [])[-10:]
RecentHistory(d, k) == LastTurns(d[k].turns, HistoryTurns)

\* a turn; by is the serial of the chat request that appended it (not in the code)
Turn(role, content, by) == [role |-> role, content |-> content, by |-> by]

InFlight == {r \in DOMAIN req : req[r].pc \in {"weather", "gemini"}}

\* a step of a request for session key: the bookkeeping
Handle(key) == handling' = key

\* lines 54-64 and get_response up to its first await (lines 80-94 or 80-101)
chat(sid, message) ==
    LET r == started + 1
        session_id == SessionKey(sid)
        history == Append(RecentHistory(conversations, session_id),
                          Turn("user", Text(<<JStr(message)>>), r))
        small == IsSmallTalk(message)
    IN  /\ started' = r
        \* line 58 stores the list object that line 61 then appends to
        /\ conversations' = [conversations EXCEPT ![session_id] = Stored(history)]
        /\ req' = Append(req,
              [session_id |-> session_id, message |-> message, history |-> history,
               pc |-> IF small THEN "gemini" ELSE "weather",
               branch |-> IF small THEN "small_talk" ELSE "weather",
               tools_used |-> IF small THEN <<"Gemini">> ELSE <<>>,
               city |-> IF small THEN <<>> ELSE CityOrDefault(message),
               weather_data |-> JNull, weather_err |-> JNull, fields |-> NoFields,
               prompt |-> IF small THEN SmallTalkPrompt(history, message) ELSE Text(<<>>),
               gen |-> "none",
               result |-> [response |-> Text(<<>>), tools_used |-> <<>>],
               log |-> IF small THEN <<"gemini_call">> ELSE <<"weather_call">>])
        /\ Handle(session_id)
        /\ UNCHANGED <<clearedAt, revived, call>>

\* get_response lines 101-164: the locals me after the lookup returned got
resume_get_response(me, got) ==
    LET x == ExtractFields(got.data, me.city)
    IN  IF LookupFailed(got.data, got.err)
        THEN [me EXCEPT !.weather_data = got.data, !.weather_err = got.err,
                        !.pc = "gemini", !.branch = "weather_failed",
                        !.tools_used = Append(@, "Gemini"),
                        !.prompt = FailurePrompt(me.message, got.err),
                        !.log = @ \o <<"weather_return", "gemini_call">>]
        ELSE IF x.raised
        THEN \* an exception leaves get_response and chat: the request ends
             [me EXCEPT !.weather_data = got.data, !.weather_err = got.err,
                        !.pc = "raised", !.branch = "weather_ok",
                        !.log = @ \o <<"weather_return">>]
        ELSE [me EXCEPT !.weather_data = got.data, !.weather_err = got.err,
                        !.fields = x.fields,
                        !.pc = "gemini", !.branch = "weather_ok",
                        !.tools_used = @ \o <<"OpenWeather", "Gemini">>,
                        !.prompt = WeatherPrompt(me.history, me.message, x.fields),
                        !.log = @ \o <<"weather_return", "gemini_call">>]

\* a mutant of lookup_done: a failed lookup is tried once more
lookup_done_retry(r, http) ==
    /\ r \in DOMAIN req
    /\ req[r].pc = "weather"
    /\ LET got == _fetch_openweather(req[r].city, http)
       IN  IF LookupFailed(got.data, got.err) /\ Len(req[r].log) = 1
           THEN req' = [req EXCEPT ![r].log = @ \o <<"weather_return", "weather_call">>]
           ELSE req' = [req EXCEPT ![r] = resume_get_response(req[r], got)]
    /\ Handle(req[r].session_id)
    /\ UNCHANGED <<conversations, started, clearedAt, revived, call>>

\* _get_openweather returns (lines 52-72) and get_response runs on to the
\* await of the generation call
lookup_done(r, http) ==
    /\ r \in DOMAIN req
    /\ req[r].pc = "weather"
    /\ req' = [req EXCEPT ![r] =
                  resume_get_response(req[r], _fetch_openweather(req[r].city, http))]
    /\ Handle(req[r].session_id)
    /\ UNCHANGED <<conversations, started, clearedAt, revived, call>>

\* generate_content_async returns (gemini_client.py lines 23-30); get_response
\* returns (lines 93-97, 112-116 or 163-168); chat lines 64-76
gemini_done(r, gen) ==
    /\ r \in DOMAIN req
    /\ req[r].pc = "gemini"
    /\ LET me == req[r]
           g == generate_content_async(gen)
           reply == IF g.raised
                    THEN FallbackReply(me.branch, me.fields, g.val)
                    ELSE g.val
           result == [response |-> reply, tools_used |-> me.tools_used]
           history == Append(me.history, Turn("assistant", result.response, r))
       IN  /\ req' = [req EXCEPT ![r] =
                   [me EXCEPT !.pc = "done", !.gen = gen.k, !.result = result,
                              !.history = history,
                              !.log = Append(@, "gemini_return")]]
           /\ conversations' = [conversations EXCEPT ![me.session_id] = Stored(history)]
           /\ revived' = [revived EXCEPT ![me.session_id] = @ \/ r <= clearedAt[me.session_id]]
    /\ Handle(req[r].session_id)
    /\ UNCHANGED <<started, clearedAt, call>>

\* lines 78-81
clear_history(session_id) ==
    /\ conversations' = Pop(conversations, session_id)
    /\ clearedAt' = [clearedAt EXCEPT ![session_id] = started]
    /\ revived' = [revived EXCEPT ![session_id] = FALSE]
    /\ Handle(session_id)
    /\ UNCHANGED <<req, started, call>>

Init ==
    /\ conversations = [k \in SessionKeys |-> Absent]
    /\ req = <<>>
    /\ started = 0
    /\ handling = "none"
    /\ clearedAt = [k \in SessionKeys |-> 0]
    /\ revived = [k \in SessionKeys |-> FALSE]
    /\ call = NoCall

----------------------------------------------------------------------------
(* Inputs *)

\* a full payload of the weather provider
FullPayload ==
    JDict(<<Item("name", JStr(<<"O","s","l","o">>)),
            Item("weather", JList(<<JDict(<<Item("description", JStr(<<"r","a","i","n">>))>>)>>)),
            Item("main", JDict(<<Item("temp", JNum(7)), Item("feels_like", JNum(5)),
                                 Item("humidity", JNum(80))>>)),
            Item("wind", JDict(<<Item("speed", JNum(4))>>)),
            Item("sys", JDict(<<Item("country", JStr(<<"N","O">>))>>)),
            Item("dt", JNum(1700))>>)

Json(x) == [json |-> TRUE, val |-> x]
NotJson == [json |-> FALSE]
Response(status, body) == [k |-> "response", status |-> status, body |-> body]
Timeout == [k |-> "exception", e |-> <<"t","i","m","e","o","u","t">>]

AgentHttp == {
    Timeout,
    Response(404, Json(JDict(<<Item("message", JStr(<<"n","o","t"," ","f","o","u","n","d">>))>>))),
    Response(404, Json(JList(<<JNum(1)>>))),
    Response(500, NotJson),
    Response(200, NotJson),
    Response(200, Json(FullPayload)),
    Response(200, Json(JDict(<<Item("main", JDict(<<Item("temp", JNum(0 - 3))>>))>>))),
    Response(200, Json(JDict(<<Item("name", JStr(<<>>)),
                               Item("weather", JList(<<JDict(<<Item("description", JNum(12))>>)>>))>>))),
    Response(200, Json(EmptyDict)),
    Response(200, Json(JNull)),
    Response(200, Json(JList(<<JNum(1)>>))),
    Response(200, Json(JDict(<<Item("weather", JList(<<JStr(<<"x">>)>>))>>))),
    Response(200, Json(JDict(<<Item("weather", JStr(<<"r","a","i","n">>)), Item("main", JNum(7))>>))),
    Response(200, Json(JDict(<<Item("weather", JStr(<<"r","a","i","n">>)), Item("wind", JList(<<>>))>>))) }

Quota == [k |-> "raise", e |-> <<"q","u","o","t","a">>]
Sunny == [k |-> "resp", text |-> JStr(<<" ","S","u","n","n","y","."," ">>)]

AgentGen == {Quota, Sunny, [k |-> "resp", text |-> JStr(<<>>)], [k |-> "resp", text |-> JNull]}

MsgHi == <<"H","i">>
MsgInA == <<"i","n"," ","a">>

AgentMessages == {
    MsgHi,
    <<"C","h","i","c","a","g","o">>,
    <<"H","E","Y"," ","y","o","u">>,
    <<"G","o","o","d"," ","M","o","r","n","i","n","g","!">>,
    MsgInA,
    <<"R","a","i","n"," ","i","n"," ","O","s","l","o","?">>,
    <<"P","a","r","i","s",","," ","F","r","a","n","c","e">>,
    Weather,
    <<>> }

ServerMessages == {MsgHi, MsgInA}
ServerHttp == {Response(200, Json(FullPayload))}
ServerGen == {Sunny}
\* session_id of a POST /chat body: "" stands for an empty or missing one
ChatSessionIds == {"", "a"}

----------------------------------------------------------------------------
(* Spec: the server, concurrent chat requests and clears of two sessions *)

MaxRequests == 2
MaxInFlight == 2

Next ==
    \/ \E sid \in ChatSessionIds, message \in ServerMessages :
          /\ started < MaxRequests
          /\ Cardinality(InFlight) < MaxInFlight
          /\ chat(sid, message)
    \/ \E r \in InFlight, http \in ServerHttp : lookup_done(r, http)
    \/ \E r \in InFlight, gen \in ServerGen : gemini_done(r, gen)
    \/ \E key \in SessionKeys : clear_history(key)

Spec == Init /\ [][Next]_vars

----------------------------------------------------------------------------
(* SpecHistory: one client of the default session that waits for each reply *)

MaxHistoryRequests == 6

NextHistory ==
    \/ /\ started < MaxHistoryRequests
       /\ InFlight = {}
       /\ chat("", MsgInA)
    \/ \E r \in InFlight, http \in ServerHttp : lookup_done(r, http)
    \/ \E r \in InFlight, gen \in ServerGen : gemini_done(r, gen)
    \/ clear_history("default")

SpecHistory == Init /\ [][NextHistory]_vars

----------------------------------------------------------------------------
(* SpecAgent: get_response under every outcome of its two external calls *)

MaxAgentCalls == 1

NextAgent ==
    \/ \E message \in AgentMessages :
          /\ started < MaxAgentCalls
          /\ InFlight = {}
          /\ chat("", message)
    \/ \E r \in InFlight, http \in AgentHttp : lookup_done(r, http)
    \/ \E r \in InFlight, gen \in AgentGen : gemini_done(r, gen)

SpecAgent == Init /\ [][NextAgent]_vars

----------------------------------------------------------------------------
(* SpecCity: _extract_city applied to every message of CityMessages *)

InitCity ==
    /\ conversations = [k \in SessionKeys |-> Absent]
    /\ req = <<>>
    /\ started = 0
    /\ handling = "none"
    /\ clearedAt = [k \in SessionKeys |-> 0]
    /\ revived = [k \in SessionKeys |-> FALSE]
    /\ \E m \in CityMessages : call = [arg |-> m, done |-> FALSE, ret |-> PyNone]

ExtractCityCall ==
    /\ ~call.done
    /\ call' = [call EXCEPT !.done = TRUE, !.ret = _extract_city(call.arg)]
    /\ UNCHANGED <<conversations, req, started, handling, clearedAt, revived>>

NextCity == ExtractCityCall

SpecCity == InitCity /\ [][NextCity]_vars

----------------------------------------------------------------------------
(* Properties *)

Returned == {r \in DOMAIN req : req[r].pc = "done"}
OnWeatherBranch == {r \in DOMAIN req : req[r].branch \in {"weather_ok", "weather_failed"}}
Count(log, e) == Cardinality({i \in 1..Len(log) : log[i] = e})
Before(log, a, b) == \A i, j \in 1..Len(log) : (log[i] = a /\ log[j] = b) => i < j

\* C1 (SpecAgent): when the weather lookup succeeded and the generation call
\* failed, the returned response contains the temperature and the description
\* of the snapshot.
C1_FallbackKeepsWeather ==
    \A r \in Returned :
        (req[r].branch = "weather_ok" /\ req[r].gen = "raise") =>
            /\ Contains(req[r].result.response, req[r].fields.temp)
            /\ Contains(req[r].result.response, req[r].fields.desc)

\* C2 (SpecHistory): no session's stored history, and no history passed to
\* get_response, holds more than 10 turns.
C2_HistoryAtMostTen ==
    /\ \A k \in SessionKeys : Len(conversations[k].turns) <= HistoryTurns
    /\ \A r \in InFlight : Len(req[r].history) <= HistoryTurns

\* C3 (SpecAgent): get_response raises no exception under any outcome of the
\* lookup and of the generation call, and what it returns holds a response
\* text and a tools_used list.
C3_GetResponseNeverRaises ==
    \A r \in DOMAIN req :
        /\ req[r].pc # "raised"
        /\ req[r].pc = "done" =>
              /\ req[r].result.response.t = "text"
              /\ req[r].result.response.v # <<>>
              /\ req[r].result.tools_used \in
                    {<<"Gemini">>, <<"OpenWeather", "Gemini">>}

C3_Witness ==
    \E r \in Returned :
        /\ req[r].branch = "weather_ok"
        /\ FieldsRaise(req[r].weather_data)
        /\ req[r].gen = "raise"

\* C4 (SpecAgent): on the weather branch tools_used is [OpenWeather, Gemini]
\* when the lookup returned data and no error, and [Gemini] when it returned
\* an error or no data, while the generation call is pending and after it
\* returned, whatever its outcome.
C4_ToolsUsedOnWeatherBranch ==
    \A r \in OnWeatherBranch :
        LET gotData == Truthy(req[r].weather_data) /\ ~Truthy(req[r].weather_err)
            tools == IF gotData THEN <<"OpenWeather", "Gemini">> ELSE <<"Gemini">>
        IN  /\ req[r].tools_used = tools
            /\ req[r].pc = "done" => req[r].result.tools_used = tools

C4_Witness ==
    \E r \in Returned :
        /\ req[r].branch = "weather_failed"
        /\ ~Truthy(req[r].weather_err)
        /\ req[r].gen = "raise"
        /\ req[r].result.tools_used = <<"Gemini">>

\* C5 (SpecAgent): within one call of get_response the generation client is
\* called exactly once by the time the call returns and never more than once,
\* the weather lookup is called at most once, and the lookup has returned
\* before the generation call starts.
C5_CallsOnceAndInOrder ==
    \A r \in DOMAIN req :
        /\ Count(req[r].log, "gemini_call") <= 1
        /\ Count(req[r].log, "weather_call") <= 1
        /\ req[r].pc = "done" => Count(req[r].log, "gemini_call") = 1
        /\ Before(req[r].log, "weather_call", "gemini_call")
        /\ Before(req[r].log, "weather_return", "gemini_call")
        /\ Count(req[r].log, "gemini_call") = 1 =>
              Count(req[r].log, "weather_return") = Count(req[r].log, "weather_call")

C5_Witness ==
    \E r \in Returned :
        /\ req[r].branch = "weather_failed"
        /\ req[r].log = <<"weather_call", "weather_return", "gemini_call", "gemini_return">>

\* C6 (Spec): a step of a request for one session key leaves the stored
\* history of every other session key, and the locals of the chat requests of
\* every other session key, as they were.
C6_SessionsDoNotInterfere ==
    [][\A k \in SessionKeys :
          handling' # k =>
              /\ conversations'[k] = conversations[k]
              /\ \A r \in DOMAIN req : req[r].session_id = k => req'[r] = req[r]]_vars

C6_Witness ==
    /\ handling = "a"
    /\ clearedAt["a"] > 0
    /\ \E r \in Returned : req[r].session_id = "a"
    /\ \E r \in InFlight : req[r].session_id = "default"
    /\ conversations["default"].has
    /\ conversations["default"].turns # <<>>

\* the greeting keywords as the claim C7 lists them
C7_Keywords == {
    <<"h","e","l","l","o">>, <<"h","i">>, <<"h","e","y">>,
    <<"h","o","w"," ","a","r","e"," ","y","o","u">>,
    <<"g","o","o","d"," ","m","o","r","n","i","n","g">>,
    <<"g","o","o","d"," ","e","v","e","n","i","n","g">>}

C7_Greets(message) ==
    \E w \in C7_Keywords : \E i \in 1..Len(message) :
        /\ i + Len(w) - 1 <= Len(message)
        /\ \A j \in 1..Len(w) : ToLower(message[i + j - 1]) = w[j]

\* C7 (SpecAgent): the small-talk branch is taken exactly when the lower-cased
\* message contains a greeting keyword as a substring; on it the weather
\* lookup is never called and tools_used is [Gemini] whatever the generation
\* call does; on every other message the weather lookup is called.
C7_SmallTalkExactlyOnGreeting ==
    \A r \in DOMAIN req :
        /\ req[r].branch = "small_talk" <=> C7_Greets(req[r].message)
        /\ C7_Greets(req[r].message) =>
              /\ Count(req[r].log, "weather_call") = 0
              /\ req[r].tools_used = <<"Gemini">>
              /\ req[r].pc = "done" => req[r].result.tools_used = <<"Gemini">>
        /\ ~C7_Greets(req[r].message) => Count(req[r].log, "weather_call") = 1

C7_Witness ==
    \E r \in Returned :
        /\ req[r].branch = "small_talk"
        /\ StrLower(req[r].message) # req[r].message
        /\ StrLower(req[r].message) \notin C7_Keywords
        /\ req[r].gen = "raise"

\* the message msg ends with the word "in" at i, whitespace, a city of letters
\* and spaces, and a question mark
C8_EndsInCity(msg, i) ==
    /\ i >= 1
    /\ i + 4 <= Len(msg)
    /\ (i = 1 \/ ~IsWordChar(msg[i - 1]))
    /\ ToLower(msg[i]) = "i"
    /\ ToLower(msg[i + 1]) = "n"
    /\ msg[i + 2] \in Whitespace
    /\ msg[Len(msg)] = "?"
    /\ \A j \in (i + 3)..(Len(msg) - 1) : msg[j] \in AsciiLetters \cup {" "}
    /\ \E j \in (i + 3)..(Len(msg) - 1) : msg[j] \in AsciiLetters

C8_City(msg, i) == PyStrip(SubSeq(msg, i + 3, Len(msg) - 1), {" "})

\* C8 (SpecCity): for a message that ends with "in <city>?", <city> made of
\* letters and spaces, _extract_city returns <city> without the question mark.
C8_QuestionMarkStripped ==
    (call.done /\ \E i \in 1..Len(call.arg) : C8_EndsInCity(call.arg, i)) =>
        \E i \in 1..Len(call.arg) :
            /\ C8_EndsInCity(call.arg, i)
            /\ call.ret = Some(C8_City(call.arg, i))

\* the occurrences of "in" the claim C9 speaks of, in the stripped message
C9_Occurrences(message) == ReMatches(PyStrip(message, Whitespace))

\* the trimmed text after the occurrence at i
C9_TextAfter(message, i) ==
    LET msg == PyStrip(message, Whitespace)
    IN  PyStrip(PyStrip(SubSeq(msg, i + 2, Len(msg)), Whitespace), TrimSet)

C9_First(message) ==
    CHOOSE i \in C9_Occurrences(message) : \A j \in C9_Occurrences(message) : i <= j

C9_Last(message) ==
    CHOOSE i \in C9_Occurrences(message) : \A j \in C9_Occurrences(message) : j <= i

\* C9 as stated (SpecCity): of several occurrences of "in", each followed by
\* whitespace and city characters up to the end, the last one is honoured.
C9_LastInHonoured ==
    (call.done /\ Cardinality(C9_Occurrences(call.arg)) >= 2) =>
        call.ret = Some(C9_TextAfter(call.arg, C9_Last(call.arg)))

\* C9 as amended (SpecCity): of several occurrences of "in", each followed by
\* whitespace and city characters up to the end, the first one is honoured:
\* the city is the trimmed text after the first "in".
C9_FirstInHonoured ==
    (call.done /\ Cardinality(C9_Occurrences(call.arg)) >= 2) =>
        call.ret = Some(C9_TextAfter(call.arg, C9_First(call.arg)))

C9_Witness ==
    /\ call.done
    /\ Cardinality(C9_Occurrences(call.arg)) >= 2
    /\ call.ret = Some(C9_TextAfter(call.arg, C9_First(call.arg)))
    /\ call.ret # Some(C9_TextAfter(call.arg, C9_Last(call.arg)))

StoredBeforeClear(k) ==
    {i \in 1..Len(conversations[k].turns) : conversations[k].turns[i].by <= clearedAt[k]}

\* C10 as stated (Spec): once a session was cleared, its stored history holds
\* no turn of a chat request that started before the clear.
C10_NoTurnFromBeforeClear ==
    \A k \in SessionKeys : clearedAt[k] > 0 => StoredBeforeClear(k) = {}

\* C10 as amended (Spec): once a session was cleared, its stored history holds
\* no turn of a chat request that started before the clear for as long as no
\* chat request of that session that was in flight at the clear has completed.
C10_NoTurnFromBeforeClearUntilRevived ==
    \A k \in SessionKeys :
        (clearedAt[k] > 0 /\ ~revived[k]) => StoredBeforeClear(k) = {}

C10_Witness ==
    \E k \in SessionKeys :
        /\ clearedAt[k] > 0
        /\ ~revived[k]
        /\ conversations[k].turns # <<>>
        /\ \E r \in InFlight : r <= clearedAt[k] /\ req[r].session_id = k

====
